---- MODULE Spec2Model ----
(***************************************************************************)
(* sunxi-boot0.c: output_boot0_info() and its helpers.                     *)
(*                                                                         *)
(* A uint32_t is the pair <<hi, lo>> of its two 16-bit halves, so that the *)
(* full 32-bit range and its wrap-around are represented exactly.  Sector  *)
(* buffers are functions from the word index 0..127 to such pairs.         *)
(***************************************************************************)
EXTENDS Integers, Sequences, FiniteSets, TLC

\* ------------------------------------------------------------------------
\* Program constants
\* ------------------------------------------------------------------------
SECTOR_SIZE == 512
EGON_FILESIZE_ALIGN == 4096
EGON_DRAM_PARAM_COUNT == 32
\* SECTOR_SIZE / sizeof(uint32_t)
BUFFER_COUNT == 128
\* sizeof(struct egon_header)
EGON_HEADER_SIZE == 48
\* offsetof(struct egon_header, checksum) / sizeof(uint32_t)
checksum_offset == 3
\* offsetof(struct egon_header_secondary, dram_param)
DRAM_PARAM_OFFSET == 8

\* ------------------------------------------------------------------------
\* Model bounds
\* ------------------------------------------------------------------------
\* largest image of the model, in units of EGON_FILESIZE_ALIGN bytes
MaxUnits == 2

\* sectors of the stream that follow sector 0
StreamSectors == MaxUnits * (EGON_FILESIZE_ALIGN \div SECTOR_SIZE) - 1

\* ------------------------------------------------------------------------
\* uint32_t arithmetic on <<hi, lo>> pairs
\* ------------------------------------------------------------------------
HALF == 256 * 256

W(hi, lo) == <<hi, lo>>

FromInt(n) == <<n \div HALF, n % HALF>>

ZERO == <<0, 0>>

\* a + b, modulo 2^32
Add32(a, b) ==
    LET lo == a[2] + b[2]
    IN  <<(a[1] + b[1] + (lo \div HALF)) % HALF, lo % HALF>>

\* a - b, modulo 2^32
Sub32(a, b) ==
    LET lo == a[2] - b[2] + HALF
        borrow == IF lo < HALF THEN 1 ELSE 0
    IN  <<(a[1] - b[1] - borrow + 2 * HALF) % HALF, lo % HALF>>

\* a < b, unsigned
Lt32(a, b) == a[1] < b[1] \/ (a[1] = b[1] /\ a[2] < b[2])

RECURSIVE BitAnd(_, _)
BitAnd(x, y) ==
    IF x = 0 \/ y = 0 THEN 0
    ELSE (x % 2) * (y % 2) + 2 * BitAnd(x \div 2, y \div 2)

\* a & b
And32(a, b) == <<BitAnd(a[1], b[1]), BitAnd(a[2], b[2])>>

\* a / 512, which always fits a machine integer of the model
Div512(a) == a[1] * (HALF \div SECTOR_SIZE) + (a[2] \div SECTOR_SIZE)

\* a uint32_t that is known to be small, as a byte count
ByteOff(a) == (Div512(a) * SECTOR_SIZE) + (a[2] % SECTOR_SIZE)

\* an off_t n (small, non-negative) compared with a uint32_t: n < a
OffLt32(n, a) == Lt32(FromInt(n), a)

\* the four bytes of a word as they lie in memory (little-endian)
Bytes(w) == <<w[2] % 256, w[2] \div 256, w[1] % 256, w[1] \div 256>>

\* 0x5f0a6c39
EGON_CHECKSUM_SEED == W(24330, 27705)

\* "eGON.BT0" and "eGON.BT1" as bytes
EGON_MAGIC_0 == <<101, 71, 79, 78, 46, 66, 84, 48>>
EGON_MAGIC_1 == <<101, 71, 79, 78, 46, 66, 84, 49>>

\* ------------------------------------------------------------------------
\* struct egon_header over the first words of sector 0
\* ------------------------------------------------------------------------
header_magic(sec) == Bytes(sec[1]) \o Bytes(sec[2])
header_checksum(sec) == sec[3]
header_filesize(sec) == sec[4]
header_header_size(sec) == sec[5]

\* memcmp(a, b, n): the difference of the first differing bytes, else 0
RECURSIVE memcmp_from(_, _, _, _)
memcmp_from(a, b, i, n) ==
    IF i > n THEN 0
    ELSE IF a[i] # b[i] THEN a[i] - b[i]
    ELSE memcmp_from(a, b, i + 1, n)

memcmp(a, b, n) == memcmp_from(a, b, 1, n)

\* ------------------------------------------------------------------------
\* egon_checksum_verify: the two summation loops
\* ------------------------------------------------------------------------
\* The loops below run over the words in index order.  They are evaluated
\* in blocks of BLOCK words, and every partial sum is looked at before the
\* next word is added, which keeps the evaluation depth small.
BLOCK == BUFFER_COUNT \div 8

IsWord(w) == w[1] < HALF /\ w[2] < HALF

\* sum += buf[i] for the indices i of from..(to - 1), except index skip
RECURSIVE add_words(_, _, _, _, _)
add_words(buf, from, to, skip, sum) ==
    IF from >= to THEN sum
    ELSE LET next == IF from = skip THEN sum ELSE Add32(sum, buf[from])
         IN  IF IsWord(next)
             THEN add_words(buf, from + 1, to, skip, next)
             ELSE next

RECURSIVE add_blocks(_, _, _, _, _)
add_blocks(buf, from, to, skip, sum) ==
    IF from >= to THEN sum
    ELSE LET upto == IF from + BLOCK < to THEN from + BLOCK ELSE to
             next == add_words(buf, from, upto, skip, sum)
         IN  IF IsWord(next)
             THEN add_blocks(buf, upto, to, skip, next)
             ELSE next

\* the loop over sector 0 without the "continue" (a variant the theorems
\* below must tell from the code)
Sector0Sum_NoSkip(sector0) ==
    add_blocks(sector0, 0, BUFFER_COUNT, -1, EGON_CHECKSUM_SEED)

\* uint32_t checksum = EGON_CHECKSUM_SEED;
\* for (i = 0; i < BUFFER_COUNT; i++) { if (i == checksum_offset) continue;
\*         checksum += sector0[i]; }
Sector0Sum(sector0) ==
    add_blocks(sector0, 0, BUFFER_COUNT, checksum_offset, EGON_CHECKSUM_SEED)

\* the loop over a buffer stopping one word early (a variant the theorems
\* below must tell from the code)
BufferSum_OffByOne(sum, buffer) ==
    add_blocks(buffer, 0, BUFFER_COUNT - 1, -1, sum)

\* for (i = 0; i < BUFFER_COUNT; i++) checksum += buffer[i];
BufferSum(sum, buffer) == add_blocks(buffer, 0, BUFFER_COUNT, -1, sum)

\* ------------------------------------------------------------------------
\* The dram parameter validators.  raw is the window dram_param[0..31];
\* each returns the value returned and the line printed.
\* ------------------------------------------------------------------------
\* struct dram_param_a10: baseaddr 0, clk 1, type 2, odt_en 9
dram_param_a10_validate(raw) ==
    IF And32(raw[0], W(4095, 65535)) # ZERO
    THEN [ret |-> -1, msg |-> "A10: wrong baseaddr"]
    ELSE IF Lt32(raw[1], FromInt(100)) \/ Lt32(FromInt(1000), raw[1])
    THEN [ret |-> -1, msg |-> "A10: wrong clk"]
    ELSE IF raw[2] # FromInt(2) /\ raw[2] # FromInt(3)
    THEN [ret |-> -1, msg |-> "A10: wrong type"]
    ELSE IF raw[9] # FromInt(0) /\ raw[9] # FromInt(1)
    THEN [ret |-> -1, msg |-> "A10: wrong odt_en"]
    ELSE [ret |-> 0, msg |-> "A10: seem valid"]

\* struct dram_param_a31: clk 0, type 1, odt_en 3
dram_param_a31_validate(raw) ==
    IF Lt32(raw[0], FromInt(100)) \/ Lt32(FromInt(1000), raw[0])
    THEN [ret |-> -1, msg |-> "A31: wrong clk"]
    ELSE IF raw[1] # FromInt(2) /\ raw[1] # FromInt(3)
            /\ raw[1] # FromInt(6) /\ raw[1] # FromInt(7)
    THEN [ret |-> -1, msg |-> "A31: wrong type"]
    ELSE IF raw[3] # FromInt(0) /\ raw[3] # FromInt(1)
    THEN [ret |-> -1, msg |-> "A31: wrong odt_en"]
    ELSE [ret |-> 0, msg |-> "A31: seem valid"]

\* the bits test written with || for && (a variant the theorems below must tell from the code)
dram_param_h6_validate_anybits(raw) ==
    IF Lt32(raw[0], FromInt(100)) \/ Lt32(FromInt(1000), raw[0])
    THEN [ret |-> -1, msg |-> "H6: wrong clk"]
    ELSE IF raw[1] # FromInt(2) /\ raw[1] # FromInt(3)
            /\ raw[1] # FromInt(6) /\ raw[1] # FromInt(7)
    THEN [ret |-> -1, msg |-> "H6: wrong type"]
    ELSE IF raw[3] # FromInt(0) /\ raw[3] # FromInt(1)
    THEN [ret |-> -1, msg |-> "H6: wrong odt_en"]
    ELSE IF raw[27] # FromInt(16) \/ raw[27] # FromInt(32)
    THEN [ret |-> -1, msg |-> "H6: wrong bits"]
    ELSE [ret |-> 0, msg |-> "H6: seem valid"]

\* struct dram_param_h6: clk 0, type 1, odt_en 3, bits 27
dram_param_h6_validate(raw) ==
    IF Lt32(raw[0], FromInt(100)) \/ Lt32(FromInt(1000), raw[0])
    THEN [ret |-> -1, msg |-> "H6: wrong clk"]
    ELSE IF raw[1] # FromInt(2) /\ raw[1] # FromInt(3)
            /\ raw[1] # FromInt(6) /\ raw[1] # FromInt(7)
    THEN [ret |-> -1, msg |-> "H6: wrong type"]
    ELSE IF raw[3] # FromInt(0) /\ raw[3] # FromInt(1)
    THEN [ret |-> -1, msg |-> "H6: wrong odt_en"]
    ELSE IF raw[27] # FromInt(16) /\ raw[27] # FromInt(32)
    THEN [ret |-> -1, msg |-> "H6: wrong bits"]
    ELSE [ret |-> 0, msg |-> "H6: seem valid"]

\* struct dram_param_h616: clk 0, type 1, dx_odt 2, dx_dri 3
dram_param_h616_validate(raw) ==
    IF Lt32(raw[0], FromInt(100)) \/ Lt32(FromInt(1200), raw[0])
    THEN [ret |-> -1, msg |-> "H616: wrong clk"]
    ELSE IF raw[1] # FromInt(2) /\ raw[1] # FromInt(3)
            /\ raw[1] # FromInt(4) /\ raw[1] # FromInt(6)
            /\ raw[1] # FromInt(7) /\ raw[1] # FromInt(8)
    THEN [ret |-> -1, msg |-> "H616: wrong type"]
    ELSE IF And32(raw[2], W(61680, 61680)) # ZERO
    THEN [ret |-> -1, msg |-> "H616: wrong dx_odt"]
    ELSE IF And32(raw[3], W(61680, 61680)) # ZERO
    THEN [ret |-> -1, msg |-> "H616: wrong dx_dri"]
    ELSE [ret |-> 0, msg |-> "H616: seem valid"]

\* the else-if chain with the A31 layout tried before the H6 layout
\* (a variant the theorems below must tell from the code)
DramParamReport_A31First(raw) ==
    LET a10 == dram_param_a10_validate(raw)
        h6 == dram_param_h6_validate(raw)
        a31 == dram_param_a31_validate(raw)
        h616 == dram_param_h616_validate(raw)
    IN  IF a10.ret = 0 THEN <<a10.msg, "print A10">>
        ELSE IF a31.ret = 0 THEN <<a10.msg, a31.msg, "print A31">>
        ELSE IF h6.ret = 0 THEN <<a10.msg, a31.msg, h6.msg, "print H6">>
        ELSE IF h616.ret = 0
        THEN <<a10.msg, a31.msg, h6.msg, h616.msg, "print H616">>
        ELSE <<a10.msg, a31.msg, h6.msg, h616.msg, "print raw">>

\* the else-if chain of output_boot0_info: the lines written to the sink,
\* the last of which names the *_print function that ran
DramParamReport(raw) ==
    LET a10 == dram_param_a10_validate(raw)
        h6 == dram_param_h6_validate(raw)
        a31 == dram_param_a31_validate(raw)
        h616 == dram_param_h616_validate(raw)
    IN  IF a10.ret = 0 THEN <<a10.msg, "print A10">>
        ELSE IF h6.ret = 0 THEN <<a10.msg, h6.msg, "print H6">>
        ELSE IF a31.ret = 0 THEN <<a10.msg, h6.msg, a31.msg, "print A31">>
        ELSE IF h616.ret = 0
        THEN <<a10.msg, h6.msg, a31.msg, h616.msg, "print H616">>
        ELSE <<a10.msg, h6.msg, a31.msg, h616.msg, "print raw">>

\* secondary = (void *) header + header->header_size;
\* dram_param = secondary->dram_param
DramParam(sec) ==
    [i \in 0..(EGON_DRAM_PARAM_COUNT - 1) |->
        sec[((ByteOff(header_header_size(sec)) + DRAM_PARAM_OFFSET) \div 4) + i]]

\* ------------------------------------------------------------------------
\* The header checks of output_boot0_info, in order: the diagnostic of the
\* first one that fails, or "ok"
\* ------------------------------------------------------------------------
\* the checks without the header-size check (a variant the theorems below must tell from the code)
HeaderCheck_NoSize(sec) ==
    IF memcmp(header_magic(sec), EGON_MAGIC_0, 8) > 0
    THEN "ERROR: wrong header magic"
    ELSE IF And32(header_filesize(sec), FromInt(EGON_FILESIZE_ALIGN - 1)) # ZERO
    THEN "ERROR: boot0 file size not a multiple"
    ELSE IF header_filesize(sec) = ZERO
    THEN "ERROR: boot0 file is supposedly empty"
    ELSE "ok"

HeaderCheck(sec) ==
    IF memcmp(header_magic(sec), EGON_MAGIC_0, 8) > 0
    THEN "ERROR: wrong header magic"
    ELSE IF header_header_size(sec) # FromInt(EGON_HEADER_SIZE)
    THEN "ERROR: egon header size mismatch"
    ELSE IF And32(header_filesize(sec), FromInt(EGON_FILESIZE_ALIGN - 1)) # ZERO
    THEN "ERROR: boot0 file size not a multiple"
    ELSE IF header_filesize(sec) = ZERO
    THEN "ERROR: boot0 file is supposedly empty"
    ELSE "ok"

\* (header->filesize / SECTOR_SIZE) - 1, computed in uint32_t and returned
\* as int: 0xFFFFFFFF becomes -1, every other value is below 2^23
SectorsRemaining(sec) == Div512(header_filesize(sec)) - 1

\* ------------------------------------------------------------------------
\* State
\* ------------------------------------------------------------------------
VARIABLES
    sector,     \* void *sector: the 128 words of sector 0, already in memory
    image,      \* FILE *inf: the word that fills each following sector
    patch,      \* FILE *inf: one word of a following sector that differs
    verbose,    \* bool verbose
    pc,         \* where the call is: "start", "loop", "dram" or "done"
    offset,     \* egon_checksum_verify: off_t offset
    checksum,   \* egon_checksum_verify: uint32_t checksum
    pos,        \* FILE *inf: the file position, in bytes
    nreads,     \* number of fread calls made on inf
    seeks,      \* the pseek calls made on inf: byte count and success
    out,        \* FILE *stream: the lines written, in order
    result,     \* the value returned once pc = "done"
    shortret,   \* the count a failed fread returned, -1 while none failed
    run,        \* 1 for the first image inspected, 2 for the second
    first,      \* the checksum computed for the first image
    mutw        \* <<sector, word>> in which the second image differs

vars == <<sector, image, patch, verbose, pc, offset, checksum, pos, nreads,
          seeks, out, result, shortret, run, first, mutw>>

NoPatch == [s |-> 0, i |-> 0, v |-> ZERO]

\* the buffer fread fills from following sector k (k = 1 is the second
\* sector of the file)
StreamSector(img, pt, k) ==
    [i \in 0..(BUFFER_COUNT - 1) |->
        IF pt.s = k /\ pt.i = i THEN pt.v ELSE img[k]]

\* the counts a failed fread is let to return
ShortCounts == {0, 1, 64, BUFFER_COUNT - 1}

\* pseek(inf, n) of sunxi-fw.h: a forward seek by n bytes that either
\* advances by n and returns 0, or fails short of it and returns non-zero
pseek(p, n, adv) == [ret |-> IF adv = n THEN 0 ELSE -1, pos |-> p + adv]

\* ------------------------------------------------------------------------
\* Reference summation, column by column: the 16-bit halves are summed
\* separately as unbounded integers and reduced modulo 2^32 at the end.
\* ------------------------------------------------------------------------
\* the sum of the halves buf[i][col], i in lo..hi, except i = skip
RECURSIVE ColSum(_, _, _, _, _)
ColSum(buf, col, lo, hi, skip) ==
    IF lo > hi THEN 0
    ELSE IF lo = hi THEN (IF lo = skip THEN 0 ELSE buf[lo][col])
    ELSE ColSum(buf, col, lo, (lo + hi) \div 2, skip)
         + ColSum(buf, col, ((lo + hi) \div 2) + 1, hi, skip)

RECURSIVE TailColSum(_, _, _, _)
TailColSum(img, pt, col, k) ==
    IF k <= 0 THEN 0
    ELSE ColSum(StreamSector(img, pt, k), col, 0, BUFFER_COUNT - 1, -1)
         + TailColSum(img, pt, col, k - 1)

\* seed + every word of sectors 0..n-1 except word 3 of sector 0
RefChecksum(sec, img, pt, n) ==
    LET hi == ColSum(sec, 1, 0, BUFFER_COUNT - 1, 3) + TailColSum(img, pt, 1, n - 1)
        lo == EGON_CHECKSUM_SEED[2] + ColSum(sec, 2, 0, BUFFER_COUNT - 1, 3)
              + TailColSum(img, pt, 2, n - 1)
    IN  <<(EGON_CHECKSUM_SEED[1] + hi + (lo \div HALF)) % HALF, lo % HALF>>

\* ------------------------------------------------------------------------
\* Inputs
\* ------------------------------------------------------------------------
WordOfBytes(b) == W(b[3] + 256 * b[4], b[1] + 256 * b[2])

\* "eGON.BT0", "eGON.BT1", eight NUL bytes, "eGON.BT/", "fGON.BT0"
MagicSamples ==
    { EGON_MAGIC_0, EGON_MAGIC_1,
      <<0, 0, 0, 0, 0, 0, 0, 0>>,
      <<101, 71, 79, 78, 46, 66, 84, 47>>,
      <<102, 71, 79, 78, 46, 66, 84, 48>> }

AlignedSizes == { FromInt(EGON_FILESIZE_ALIGN * k) : k \in 1..MaxUnits }

FileSizes == AlignedSizes \cup
    { ZERO, FromInt(SECTOR_SIZE), FromInt(EGON_FILESIZE_ALIGN + SECTOR_SIZE) }

HeaderSizes == { FromInt(EGON_HEADER_SIZE), FromInt(32) }

\* a window with the words the validators read set, and zero elsewhere
MkWindow(w0, w1, w2, w3, w9, w27) ==
    [i \in 0..(EGON_DRAM_PARAM_COUNT - 1) |->
        CASE i = 0 -> w0 [] i = 1 -> w1 [] i = 2 -> w2 [] i = 3 -> w3
          [] i = 9 -> w9 [] i = 27 -> w27 [] OTHER -> ZERO]

\* one window per layout: H6 (and A31), A31 alone, A10, H616 alone, none
WindowSamples ==
    { MkWindow(FromInt(200), FromInt(3), ZERO, ZERO, ZERO, FromInt(16)),
      MkWindow(FromInt(200), FromInt(3), ZERO, FromInt(1), ZERO, ZERO),
      MkWindow(W(16384, 0), FromInt(400), FromInt(3), ZERO, FromInt(1), ZERO),
      MkWindow(FromInt(1100), FromInt(8), FromInt(2), FromInt(2), ZERO, ZERO),
      MkWindow(ZERO, ZERO, ZERO, ZERO, ZERO, ZERO) }

\* the cross product of the values that decide each validator's tests
WindowGrid ==
    { MkWindow(w0, w1, w2, w3, w9, w27) :
        w0 \in { W(16384, 0), W(16384, 100), FromInt(99), FromInt(100),
                 FromInt(1000), FromInt(1001), FromInt(1200), FromInt(1201) },
        w1 \in { FromInt(2), FromInt(3), FromInt(4), FromInt(5), FromInt(6),
                 FromInt(7), FromInt(8), FromInt(100), FromInt(1001) },
        w2 \in { FromInt(2), FromInt(4), FromInt(16) },
        w3 \in { ZERO, FromInt(1), FromInt(2), FromInt(16) },
        w9 \in { FromInt(1), FromInt(2) },
        w27 \in { FromInt(16), FromInt(32), ZERO } }

\* sector 0 of an image: the header, the secondary header at byte 48 and
\* the dram_param window at byte 56
MkSector0(mg, cks, fsz, hsz, win) ==
    [i \in 0..(BUFFER_COUNT - 1) |->
        CASE i = 0 -> W(59904, 22)
          [] i = 1 -> WordOfBytes(SubSeq(mg, 1, 4))
          [] i = 2 -> WordOfBytes(SubSeq(mg, 5, 8))
          [] i = 3 -> cks
          [] i = 4 -> fsz
          [] i = 5 -> hsz
          [] i \in 14..45 -> win[i - 14]
          [] OTHER -> W(4660, 22136)]

Min(a, b) == IF a < b THEN a ELSE b

\* the same sector with the checksum field set to the sum of the image
WithGoodChecksum(sec, img) ==
    [sec EXCEPT ![3] =
        RefChecksum(sec, img, NoPatch,
                    Min(Div512(header_filesize(sec)), StreamSectors + 1))]

ImageOf(fill) == [k \in 1..StreamSectors |-> fill]

\* ------------------------------------------------------------------------
\* Initial states
\* ------------------------------------------------------------------------
InitCall ==
    /\ patch = NoPatch
    /\ pc = "start"
    /\ offset = 0
    /\ checksum = ZERO
    /\ pos = SECTOR_SIZE
    /\ nreads = 0
    /\ seeks = <<>>
    /\ out = <<>>
    /\ result = 0
    /\ shortret = -1
    /\ run = 1
    /\ first = ZERO
    /\ mutw = <<0, 0>>

Init ==
    /\ verbose \in BOOLEAN
    /\ image \in { ImageOf(ZERO), ImageOf(W(65535, 65535)) }
    /\ \E mg \in MagicSamples, fsz \in FileSizes, hsz \in HeaderSizes,
          win \in WindowSamples, good \in BOOLEAN :
          LET sec == MkSector0(mg, ZERO, fsz, hsz, win)
          IN  sector = IF good THEN WithGoodChecksum(sec, image) ELSE sec
    /\ InitCall

\* ------------------------------------------------------------------------
\* output_boot0_info
\* ------------------------------------------------------------------------
\* one of the four header checks fails: its diagnostic, return 0
RejectHeader ==
    /\ pc = "start"
    /\ HeaderCheck(sector) # "ok"
    /\ out' = Append(out, HeaderCheck(sector))
    /\ result' = 0
    /\ pc' = "done"
    /\ UNCHANGED <<sector, image, patch, verbose, offset, checksum, pos,
                   nreads, seeks, shortret, run, first, mutw>>

\* verbose: the two lines printed, then egon_checksum_verify up to its
\* first fread
BeginVerbose ==
    /\ pc = "start"
    /\ HeaderCheck(sector) = "ok"
    /\ verbose
    /\ out' = out \o <<"Found eGON header", "Boot0 Filesize">>
    /\ checksum' = Sector0Sum(sector)
    /\ offset' = SECTOR_SIZE
    /\ pc' = "loop"
    /\ UNCHANGED <<sector, image, patch, verbose, pos, nreads, seeks, result,
                   shortret, run, first, mutw>>

\* not verbose: pseek(inf, header->filesize - SECTOR_SIZE) and return
SkipImage ==
    /\ pc = "start"
    /\ HeaderCheck(sector) = "ok"
    /\ ~verbose
    /\ LET n == Sub32(header_filesize(sector), FromInt(SECTOR_SIZE))
       IN  \E adv \in {0, SECTOR_SIZE, ByteOff(n)} :
             LET r == pseek(pos, ByteOff(n), adv)
             IN  /\ pos' = r.pos
                 /\ seeks' = Append(seeks, [n |-> n, ok |-> r.ret = 0])
                 /\ result' = IF r.ret # 0 THEN 0 ELSE SectorsRemaining(sector)
    /\ pc' = "done"
    /\ UNCHANGED <<sector, image, patch, verbose, offset, checksum, nreads,
                   out, shortret, run, first, mutw>>

\* one round of the loop of egon_checksum_verify with a full fread
ReadOk ==
    /\ pc = "loop"
    /\ OffLt32(offset, header_filesize(sector))
    /\ pos \div SECTOR_SIZE <= StreamSectors
    /\ checksum' = BufferSum(checksum,
                             StreamSector(image, patch, pos \div SECTOR_SIZE))
    /\ offset' = offset + SECTOR_SIZE
    /\ pos' = pos + SECTOR_SIZE
    /\ nreads' = nreads + 1
    /\ UNCHANGED <<sector, image, patch, verbose, pc, seeks, out, result,
                   shortret, run, first, mutw>>

\* fread returns ret != BUFFER_COUNT: egon_checksum_verify prints the error
\* and returns ret; output_boot0_info returns 0 if (ret), else goes on
ReadShort ==
    /\ pc = "loop"
    /\ OffLt32(offset, header_filesize(sector))
    /\ \E ret \in ShortCounts :
          /\ (pos \div SECTOR_SIZE > StreamSectors) => ret = 0
          /\ shortret' = ret
          /\ pos' = pos + 4 * ret
          /\ IF ret # 0
             THEN pc' = "done" /\ result' = 0
             ELSE pc' = "dram" /\ UNCHANGED result
    /\ out' = Append(out, "Error: fread failed")
    /\ nreads' = nreads + 1
    /\ UNCHANGED <<sector, image, patch, verbose, offset, checksum, seeks,
                   run, first, mutw>>

\* the loop is over: compare, print the verdict, return 0
Verdict ==
    /\ pc = "loop"
    /\ ~OffLt32(offset, header_filesize(sector))
    /\ out' = Append(out, IF checksum # header_checksum(sector)
                          THEN "eGON checksum mismatch"
                          ELSE "eGON checksum matches")
    /\ pc' = "dram"
    /\ UNCHANGED <<sector, image, patch, verbose, offset, checksum, pos,
                   nreads, seeks, result, shortret, run, first, mutw>>

\* the dram parameter detection and the final return
DramDetect ==
    /\ pc = "dram"
    /\ out' = out \o <<"Looking for a valid dram parameter structure">>
                  \o DramParamReport(DramParam(sector))
    /\ result' = SectorsRemaining(sector)
    /\ pc' = "done"
    /\ UNCHANGED <<sector, image, patch, verbose, offset, checksum, pos,
                   nreads, seeks, shortret, run, first, mutw>>

Next ==
    \/ RejectHeader
    \/ BeginVerbose
    \/ SkipImage
    \/ ReadOk
    \/ ReadShort
    \/ Verdict
    \/ DramDetect

Spec == Init /\ [][Next]_vars

\* ------------------------------------------------------------------------
\* The detector on a grid of windows: verbose calls on a valid boot0 image
\* whose reads all succeed
\* ------------------------------------------------------------------------
InitDram ==
    /\ verbose = TRUE
    /\ image = ImageOf(ZERO)
    /\ \E win \in WindowGrid :
          sector = MkSector0(EGON_MAGIC_0, ZERO, FromInt(EGON_FILESIZE_ALIGN),
                             FromInt(EGON_HEADER_SIZE), win)
    /\ InitCall

NextDram ==
    \/ BeginVerbose
    \/ ReadOk
    \/ Verdict
    \/ DramDetect

SpecDram == InitDram /\ [][NextDram]_vars

\* ------------------------------------------------------------------------
\* Two images that differ in one word: the caller has one image inspected,
\* then a second one that differs from it in exactly one 32-bit word
\* ------------------------------------------------------------------------
\* following sector 8 filled with 0xFFFFFFE0, the others with zero
ImageWithTail ==
    [k \in 1..StreamSectors |-> IF k = 8 THEN W(65535, 65504) ELSE ZERO]

InitSum ==
    /\ verbose = TRUE
    /\ image \in { ImageOf(ZERO), ImageOf(W(65535, 65535)), ImageWithTail }
    /\ \E fsz \in AlignedSizes :
          sector = MkSector0(EGON_MAGIC_0, ZERO, fsz, FromInt(EGON_HEADER_SIZE),
                             MkWindow(FromInt(200), FromInt(3), ZERO, ZERO,
                                      ZERO, FromInt(16)))
    /\ InitCall

HasLine(line) == \E k \in 1..Len(out) : out[k] = line

VerdictGiven ==
    HasLine("eGON checksum matches") \/ HasLine("eGON checksum mismatch")

MutWords == {0, 1, 3, 4, 5, BUFFER_COUNT - 1}

MutValues == AlignedSizes \cup { ZERO, FromInt(1), W(65535, 65535) }

\* the first inspection is over and gave a verdict; the second image is the
\* first with word i of sector s set to another value v
Mutate ==
    /\ pc = "done"
    /\ run = 1
    /\ VerdictGiven
    /\ \E s \in {0, 1, Div512(header_filesize(sector)) - 1},
          i \in MutWords, v \in MutValues :
          /\ s <= StreamSectors
          /\ IF s = 0
             THEN /\ sector[i] # v
                  /\ sector' = [sector EXCEPT ![i] = v]
                  /\ patch' = patch
             ELSE /\ image[s] # v
                  /\ patch' = [s |-> s, i |-> i, v |-> v]
                  /\ sector' = sector
          /\ mutw' = <<s, i>>
    /\ first' = checksum
    /\ run' = 2
    /\ pc' = "start"
    /\ offset' = 0
    /\ checksum' = ZERO
    /\ pos' = SECTOR_SIZE
    /\ nreads' = 0
    /\ seeks' = <<>>
    /\ out' = <<>>
    /\ result' = 0
    /\ shortret' = -1
    /\ UNCHANGED <<image, verbose>>

NextSum ==
    \/ RejectHeader
    \/ BeginVerbose
    \/ ReadOk
    \/ ReadShort
    \/ Verdict
    \/ DramDetect
    \/ Mutate

SpecSum == InitSum /\ [][NextSum]_vars

\* ------------------------------------------------------------------------
\* The specification's terms, stated apart from the code above
\* ------------------------------------------------------------------------
RecognizedMagic(sec) == header_magic(sec) \in {EGON_MAGIC_0, EGON_MAGIC_1}

\* a positive multiple of 4096 (65536 is one, so the low half decides)
FilesizeValid(sec) ==
    /\ sec[4] # ZERO
    /\ sec[4][2] % EGON_FILESIZE_ALIGN = 0

StructurallyValid(sec) ==
    /\ RecognizedMagic(sec)
    /\ sec[5] = <<0, EGON_HEADER_SIZE>>
    /\ FilesizeValid(sec)

\* filesize/512 - 1
SuccessValue(sec) == (sec[4][1] * 128) + (sec[4][2] \div 512) - 1

SoftDiagnostics ==
    { "ERROR: wrong header magic", "ERROR: egon header size mismatch",
      "ERROR: boot0 file size not a multiple",
      "ERROR: boot0 file is supposedly empty" }

Returned == pc = "done"

DetectorRan == HasLine("Looking for a valid dram parameter structure")

\* the *_print function that ran, once the call has returned
Selected == out[Len(out)]

\* the 32 words that follow the secondary header's two fields (byte 56)
Window == [i \in 0..31 |-> sector[14 + i]]

Small(w, set) == w[1] = 0 /\ w[2] \in set

NoHighNibbles(w) ==
    \A h \in {1, 2} : (w[h] \div 16) % 16 = 0 /\ (w[h] \div 4096) % 16 = 0

PlausibleA10(w) ==
    /\ w[0][2] = 0 /\ w[0][1] % 4096 = 0
    /\ Small(w[1], 100..1000)
    /\ Small(w[2], {2, 3})
    /\ Small(w[9], {0, 1})

PlausibleH6(w) ==
    /\ Small(w[0], 100..1000)
    /\ Small(w[1], {2, 3, 6, 7})
    /\ Small(w[3], {0, 1})
    /\ Small(w[27], {16, 32})

PlausibleA31(w) ==
    /\ Small(w[0], 100..1000)
    /\ Small(w[1], {2, 3, 6, 7})
    /\ Small(w[3], {0, 1})

PlausibleH616(w) ==
    /\ Small(w[0], 100..1200)
    /\ Small(w[1], {2, 3, 4, 6, 7, 8})
    /\ NoHighNibbles(w[2])
    /\ NoHighNibbles(w[3])

\* the first variant that passes in the order H6, A31, A10, H616
PriorityVariant(w) ==
    IF PlausibleH6(w) THEN "print H6"
    ELSE IF PlausibleA31(w) THEN "print A31"
    ELSE IF PlausibleA10(w) THEN "print A10"
    ELSE IF PlausibleH616(w) THEN "print H616"
    ELSE "print raw"

\* ------------------------------------------------------------------------
\* Claims
\* ------------------------------------------------------------------------

\* C1: the magic check passes exactly when the magic is "eGON.BT0" or
\* "eGON.BT1": a recognized magic never yields the wrong-magic diagnostic
\* (and with the other fields valid the call is not rejected), and every
\* other magic yields that diagnostic and the result 0.
C1_MagicCheckExact ==
    Returned =>
        /\ RecognizedMagic(sector) => ~HasLine("ERROR: wrong header magic")
        /\ (StructurallyValid(sector) /\ run = 1)
              => \A k \in 1..Len(out) : out[k] \notin SoftDiagnostics
        /\ ~RecognizedMagic(sector)
              => out = <<"ERROR: wrong header magic">> /\ result = 0

\* C2: a short read (0..127 words) during checksum streaming aborts the
\* call: no checksum verdict, the detector does not run, and the value
\* returned is not filesize/512 - 1.
C2_ShortReadAborts ==
    (Returned /\ shortret # -1) =>
        /\ ~VerdictGiven
        /\ ~DetectorRan
        /\ result # SuccessValue(sector)

\* C3: on every window the *_print that runs is that of the first variant
\* in the order H6, A31, A10, H616 whose predicates pass, and the raw dump
\* exactly when none passes.
C3_PriorityOrder ==
    (Returned /\ DetectorRan) => Selected = PriorityVariant(Window)

C3_Witness ==
    /\ Returned /\ DetectorRan
    /\ PlausibleA10(Window)
    /\ Selected = "print A10"

\* C4: a window that passes the H6 predicates also passes the A31 validator,
\* and the detector selects H6 for it; A31 is selected only for windows
\* that pass the A31 predicates and fail the H6 bits check.
C4_H6BeforeA31 ==
    (Returned /\ DetectorRan) =>
        /\ PlausibleH6(Window) =>
              /\ dram_param_a31_validate(DramParam(sector)).ret = 0
              /\ Selected = "print H6"
        /\ Selected = "print A31" =>
              /\ PlausibleA31(Window)
              /\ ~Small(Window[27], {16, 32})

C4_Witness ==
    /\ Returned /\ DetectorRan
    /\ PlausibleH6(Window)
    /\ dram_param_a31_validate(DramParam(sector)).ret = 0
    /\ Selected = "print H6"

\* C5: not verbose, recognized magic, header_size 48, filesize a positive
\* multiple of 4096: exactly one seek, of filesize - 512 bytes, no read,
\* and filesize/512 - 1 returned when the seek succeeds.
C5_NonVerboseSkip ==
    (Returned /\ ~verbose /\ StructurallyValid(sector)) =>
        /\ Len(seeks) = 1
        /\ seeks[1].n = Sub32(sector[4], <<0, 512>>)
        /\ nreads = 0
        /\ seeks[1].ok => result = SuccessValue(sector)

\* C6: with a recognized magic, a header_size other than 48, a zero
\* filesize, or a filesize that is no multiple of 4096 - each taken alone -
\* gives the soft failure: a diagnostic, 0 returned, no read and no seek,
\* verbose or not.
C6_SoftFailures ==
    (/\ Returned
     /\ RecognizedMagic(sector)
     /\ \/ sector[5] # <<0, EGON_HEADER_SIZE>> /\ FilesizeValid(sector)
        \/ sector[5] = <<0, EGON_HEADER_SIZE>> /\ ~FilesizeValid(sector))
    =>
        /\ result = 0
        /\ nreads = 0
        /\ seeks = <<>>
        /\ pos = SECTOR_SIZE
        /\ Len(out) = 1 /\ out[1] \in SoftDiagnostics

C6_Witness ==
    /\ Returned
    /\ header_magic(sector) = EGON_MAGIC_0
    /\ sector[5] = <<0, EGON_HEADER_SIZE>>
    /\ sector[4] = ZERO
    /\ verbose
    /\ out = <<"ERROR: boot0 file is supposedly empty">>
    /\ result = 0

\* C7: verbose, a structurally valid header, every read succeeding: whether
\* the checksum matches or not, the verdict is printed, the detector runs
\* and filesize/512 - 1 is returned.
C7_MismatchIsWarning ==
    (Returned /\ verbose /\ StructurallyValid(sector) /\ shortret = -1) =>
        /\ VerdictGiven
        /\ DetectorRan
        /\ result = SuccessValue(sector)

\* C8: when every read succeeds, the value compared with the declared
\* checksum is, modulo 2^32, the seed plus all words of sector 0 except
\* word 3 plus every word of the filesize/512 - 1 following sectors; the
\* verdict printed is "matches" exactly when the two are equal.
C8_ChecksumIsReferenceSum ==
    VerdictGiven =>
        /\ nreads = SuccessValue(sector)
        /\ checksum = RefChecksum(sector, image, patch, SuccessValue(sector) + 1)
        /\ HasLine("eGON checksum matches") <=> (checksum = sector[3])

C8_Witness ==
    /\ Returned
    /\ HasLine("eGON checksum matches")
    /\ image[1] = <<65535, 65535>>
    /\ Lt32(checksum, EGON_CHECKSUM_SEED)

\* C9 as stated: changing one word of the image changes the computed
\* checksum, unless the word is the checksum field (sector 0, word 3), and
\* then the computed checksum is unchanged.
C9_AnyWordChangesSum ==
    (run = 2 /\ VerdictGiven) =>
        IF mutw = <<0, 3>> THEN checksum = first ELSE checksum # first

\* C9 as amended: the same, for every word other than the filesize field
\* (sector 0, word 4), whose change alters the number of sectors summed.
C9_WordChangesSumExceptFilesize ==
    (run = 2 /\ VerdictGiven /\ mutw # <<0, 4>>) =>
        IF mutw = <<0, 3>> THEN checksum = first ELSE checksum # first

C9_Witness ==
    /\ run = 2 /\ VerdictGiven
    /\ mutw = <<1, BUFFER_COUNT - 1>>
    /\ checksum # first

\* C10: not verbose, a structurally valid header, the seek fails: the value
\* returned is neither the success value nor the 0 of a soft failure.
C10_SeekFailureDistinct ==
    (/\ Returned /\ ~verbose /\ StructurallyValid(sector)
     /\ Len(seeks) = 1 /\ ~seeks[1].ok)
    =>
        /\ result # SuccessValue(sector)
        /\ result # 0

\* C11: for a structurally valid header, a call that returns the success
\* value filesize/512 - 1 leaves the stream at byte filesize of the image in
\* either mode: verbose by exactly filesize/512 - 1 full reads of 512 bytes
\* and no seek, non-verbose by one seek of filesize - 512 bytes and no read;
\* the position is never before its start nor past the end of the image.
C11_SameStreamEffect ==
    (StructurallyValid(sector) /\ run = 1) =>
        /\ pos >= SECTOR_SIZE
        /\ pos <= (SuccessValue(sector) + 1) * SECTOR_SIZE
        /\ (Returned /\ result = SuccessValue(sector)) =>
              /\ pos = (SuccessValue(sector) + 1) * SECTOR_SIZE
              /\ verbose =>
                    /\ nreads = SuccessValue(sector)
                    /\ shortret = -1
                    /\ seeks = <<>>
              /\ ~verbose =>
                    /\ nreads = 0
                    /\ seeks = <<[n |-> Sub32(sector[4], <<0, SECTOR_SIZE>>),
                                 ok |-> TRUE]>>

====
